---------------------------- MODULE Spec2Model ----------------------------
(***************************************************************************)
(* Model of the video-to-character-art converters:                         *)
(*   "mono"     src/videoToANSI.py           create_ascii_html             *)
(*   "resample" src/videoToANSIgai1.py       create_ascii_html             *)
(*   "colour"   src/videoToANSI_Colorful.py  create_color_ascii_html       *)
(*   "file"     src/videoToANSI_file_ver.py  save_color_ascii_frames       *)
(*                                                                         *)
(* Five specifications share the module:                                   *)
(*   Spec        one conversion run, step by step                          *)
(*   QuantSpec   the per-pixel quantizer applied to one row of pixels      *)
(*   StrideSpec  the sampling-interval computation of the resampler        *)
(*   GridSpec    height, resize and glyph assembly of a run's frames       *)
(*   PlayerSpec  the playback script of the generated page                 *)
(*                                                                         *)
(* Pixels are numpy uint8 values.  The quantizer's floating-point          *)
(* expression n / (d + 1e-5) * (L - 1) is computed exactly as the rational *)
(* n * 100000 * (L - 1) / (d * 100000 + 1); for every 8-bit n and d the    *)
(* truncation of the IEEE double result equals the truncation of that      *)
(* rational (the nearest integer boundary is at a relative distance of at  *)
(* least 1/(d*100000+1), far above double rounding error).                 *)
(***************************************************************************)
EXTENDS Integers, Sequences, FiniteSets

VARIABLES
    \* ---- one conversion run (Spec) ----
    variant,            \* which of the four programs runs
    pathIsFile,         \* os.path.isfile(video_path)
    canOpen,            \* cap.isOpened()
    pc,                 \* position in the function body
    outcome,            \* "Running", "Success" or the error that ended the run
    exitCode,           \* process exit status once pc = "done"
    video,              \* the frames the decoder can yield, in source order
    total_frames,       \* int(cap.get(CAP_PROP_FRAME_COUNT)), as reported
    original_fps,       \* cap.get(CAP_PROP_FPS)
    fps,                \* the fps argument
    pos,                \* decoder position: index of the next source frame
    eos,                \* the decoder has signalled "no more data"
    frame_count,        \* frames analysed by the range estimation
    brightness_stats,   \* list of <<min, max>> per analysed frame
    global_min,
    global_max,
    frame_interval,     \* resampling stride
    frame_index,        \* running source-frame index of the resampling loop
    processed,          \* frames rasterized so far
    cur,                \* frame decoded and not yet appended, or NoFrame
    frames,             \* in-memory animation (HTML variants)
    written,            \* frames present at the output location
    htmlWritten,        \* the HTML artifact exists
    grabs,              \* per source frame: cap.grab() calls that took it
    retrieved,          \* source frames decoded by cap.retrieve()
    streamEnded,        \* the rasterization loop left through "if not ret: break"
    \* ---- quantizer on one row (QuantSpec) ----
    qvariant, qramp, qmin, qmax, qrow, qout, qdone,
    \* ---- stride (StrideSpec) ----
    sOriginalFps, sFps, sInterval, sDone,
    \* ---- one frame through resize and glyph assembly (GridSpec) ----
    gvariant,           \* which program rasterizes
    gWidth,             \* the width argument (glyphs per row)
    gSrcW, gSrcH,       \* width and height of the source frame
    gHeight,            \* the computed number of rows
    gGrid,              \* the glyph grid: a list of rows
    gState,             \* "pending", "done" or "ResizeError"
    \* ---- the generated HTML player (PlayerSpec) ----
    pvariant,           \* which program generated the page
    pFps,               \* the fps written into the page
    pFrames,            \* frames.length
    pState,             \* "loading", "playing" or "stopped"
    currentFrame,
    lastTime,
    pNow,               \* timestamp of the latest callback
    pShown,             \* index of the frame on display, -1 for none
    pRenders,           \* frames rendered by callbacks
    pRequests           \* animation callbacks requested and not yet run

runVars == <<variant, pathIsFile, canOpen, pc, outcome, exitCode, video,
             total_frames, original_fps, fps, pos, eos, frame_count,
             brightness_stats, global_min, global_max, frame_interval,
             frame_index, processed, cur, frames, written, htmlWritten,
             grabs, retrieved, streamEnded>>
quantVars == <<qvariant, qramp, qmin, qmax, qrow, qout, qdone>>
strideVars == <<sOriginalFps, sFps, sInterval, sDone>>
gridVars == <<gvariant, gWidth, gSrcW, gSrcH, gHeight, gGrid, gState>>
playerVars == <<pvariant, pFps, pFrames, pState, currentFrame, lastTime, pNow,
                pShown, pRenders, pRequests>>
vars == <<runVars, quantVars, strideVars, gridVars, playerVars>>

-----------------------------------------------------------------------------
(* Bounds of the model *)

\* Longest source video, in frames.
MaxFrames == 6
\* Pixel values kept within this distance of 0 and of 255 (plus mid-grey).
EdgeLevels == 5
\* Largest frame rate tried by StrideSpec.
MaxRate == 40
\* Largest source width, source height and target width tried by GridSpec.
MaxDim == 4
\* Frames rasterized in one GridSpec run.
GridFrames == 2
\* Most frames embedded in a page played by PlayerSpec.
MaxPlayFrames == 3
\* Latest callback timestamp (milliseconds) tried by PlayerSpec.
MaxTime == 120

-----------------------------------------------------------------------------
(* Program constants *)

ASCII_MAP == <<" ", ".", ",", "-", "~", ":", ";", "=", "!", "*", "#", "$", "@">>
\* The three-glyph ramp of the end-to-end scenario.
ScenarioRamp == <<" ", ".", "#">>
Ramps == {ASCII_MAP, ScenarioRamp}

\* 1e-5 is 1 / EpsInv.
EpsInv == 100000
\* The monochrome estimators analyse at most this many frames.
EstimateFrames == 5
\* uint8 arithmetic is modulo 2^8.
Byte == 256

Variants == {"mono", "resample", "colour", "file"}
HtmlVariants == {"mono", "resample", "colour"}
MonoVariants == {"mono", "resample"}

Min2(a, b) == IF a <= b THEN a ELSE b
Max2(a, b) == IF a >= b THEN a ELSE b

-----------------------------------------------------------------------------
(* The quantizer *)

\* Outcome of a quantization whose division has a zero denominator.
DivisionError == -1

Sub8Swapped(a, b) == (b - a) % Byte
\* numpy uint8 - uint8: wraps modulo 256.
Sub8(a, b) == (a - b) % Byte

DenominatorNoEps(gmin, gmax) == Sub8(gmax, gmin) * EpsInv
\* (global_max - global_min + 1e-5), in units of 1e-5.
Denominator(gmin, gmax) == Sub8(gmax, gmin) * EpsInv + 1

\* min(max(num/den, 0), 1) as a fraction <<num, den>>.
ClampUnit(num, den) ==
    IF num < 0 THEN <<0, 1>>
    ELSE IF num > den THEN <<1, 1>>
    ELSE <<num, den>>

\* mono, colour, file: int(min(max((pixel - min) / (max - min + 1e-5), 0), 1) * (L - 1))
QuantizeClamped(pixel, gmin, gmax, L) ==
    LET num == Sub8(pixel, gmin) * EpsInv
        den == Denominator(gmin, gmax)
    IN  IF den = 0 THEN DivisionError
        ELSE LET n == ClampUnit(num, den)
             IN  (n[1] * (L - 1)) \div n[2]

\* resample: min(int((pixel - min) / (max - min + 1e-5) * (L - 1)), L - 1)
QuantizeCapped(pixel, gmin, gmax, L) ==
    LET num == Sub8(pixel, gmin) * EpsInv
        den == Denominator(gmin, gmax)
    IN  IF den = 0 THEN DivisionError
        ELSE Min2((num * (L - 1)) \div den, L - 1)

\* The glyph index each variant computes for one pixel.
Quantize(v, pixel, gmin, gmax, L) ==
    IF v = "resample" THEN QuantizeCapped(pixel, gmin, gmax, L)
    ELSE QuantizeClamped(pixel, gmin, gmax, L)

\* One row of pixels to one row of glyph indices ("for pixel in row").
QuantizeRow(v, row, gmin, gmax, L) ==
    [c \in 1..Len(row) |-> Quantize(v, row[c], gmin, gmax, L)]

\* The 8-bit pixel values the model draws from.
Levels == {p \in 0..(Byte - 1) :
              \/ p <= EdgeLevels
              \/ p >= Byte - 1 - EdgeLevels
              \/ p \in {127, 128}}

-----------------------------------------------------------------------------
(* The resampler's stride *)

\* Python round() of the quotient a / b of positive numbers: nearest integer,
\* a tie going to the even neighbour.
PyRound(a, b) ==
    LET q == a \div b
        r == a % b
    IN  IF 2 * r < b THEN q
        ELSE IF 2 * r > b THEN q + 1
        ELSE IF q % 2 = 0 THEN q ELSE q + 1

StrideTruncating(sourceRate, targetRate) == sourceRate \div targetRate
\* frame_interval = max(1, round(original_fps / fps))
Stride(sourceRate, targetRate) == Max2(1, PyRound(sourceRate, targetRate))

SelectedShifted(index, interval) == (index + 1) % interval = 0
\* if frame_index % frame_interval == 0
Selected(index, interval) == index % interval = 0

-----------------------------------------------------------------------------
(* Source videos *)

\* A decoded frame at the sampling grid: a row-major list of brightness values.
Checker == <<0, 255, 255, 0>>
Grey == <<128, 128, 128, 128>>
SourceFrames == {Checker, Grey}

\* Every video of at most MaxFrames frames.
Videos == UNION {[1..n -> SourceFrames] : n \in 0..MaxFrames}

\* The frame count a container reports may be off by one either way.
ReportedCounts(v) == {n \in {Len(v) - 1, Len(v), Len(v) + 1} : n >= 0}

\* <<original_fps, fps>> pairs; only the resampling variant reads the ratio.
RatePairs(v) ==
    IF v = "resample" THEN {<<30, 10>>, <<24, 10>>, <<24, 60>>} ELSE {<<30, 10>>}

NoFrame == [src |-> -1, px |-> <<>>]

SeqFirst(s) == s[1]
SeqMin(s) == CHOOSE x \in {s[i] : i \in 1..Len(s)} :
                 \A j \in 1..Len(s) : x <= s[j]
SeqMax(s) == CHOOSE x \in {s[i] : i \in 1..Len(s)} :
                 \A j \in 1..Len(s) : x >= s[j]

\* State of a run before its first step, for every variable but the inputs.
RunFresh ==
    /\ pc = "start"
    /\ outcome = "Running"
    /\ exitCode = 0
    /\ video = <<>>
    /\ total_frames = 0
    /\ original_fps = 0
    /\ fps = 0
    /\ pos = 0
    /\ eos = FALSE
    /\ frame_count = 0
    /\ brightness_stats = <<>>
    /\ global_min = 0
    /\ global_max = 0
    /\ frame_interval = 1
    /\ frame_index = 0
    /\ processed = 0
    /\ cur = NoFrame
    /\ frames = <<>>
    /\ written = <<>>
    /\ htmlWritten = FALSE
    /\ grabs = [p \in 0..MaxFrames |-> 0]
    /\ retrieved = {}
    /\ streamEnded = FALSE

\* The variables of the specifications that are not running.
RunIdle == variant = "mono" /\ pathIsFile = TRUE /\ canOpen = TRUE /\ RunFresh
QuantIdle ==
    /\ qvariant = "mono" /\ qramp = ASCII_MAP /\ qmin = 0 /\ qmax = 0
    /\ qrow = <<>> /\ qout = <<>> /\ qdone = FALSE
StrideIdle == sOriginalFps = 1 /\ sFps = 1 /\ sInterval = 0 /\ sDone = FALSE
GridIdle ==
    /\ gvariant = "mono" /\ gWidth = 1 /\ gSrcW = 1 /\ gSrcH = 1
    /\ gHeight = 0 /\ gGrid = <<>> /\ gState = "pending"
PlayerIdle ==
    /\ pvariant = "mono" /\ pFps = 1 /\ pFrames = 0 /\ pState = "loading"
    /\ currentFrame = 0 /\ lastTime = 0 /\ pNow = 0 /\ pShown = -1
    /\ pRenders = 0 /\ pRequests = 0

-----------------------------------------------------------------------------
(* QuantSpec: a variant's quantizer applied to one row of two pixels under an
   estimated range (min <= max, as the estimator produces) *)

QuantInit ==
    /\ qvariant \in Variants
    /\ qramp \in Ramps
    /\ qmin \in Levels
    /\ qmax \in {m \in Levels : qmin <= m}
    /\ qrow \in [1..2 -> Levels]
    /\ qout = <<>>
    /\ qdone = FALSE
    /\ RunIdle
    /\ StrideIdle
    /\ GridIdle
    /\ PlayerIdle

QuantizeRowStep ==
    /\ ~qdone
    /\ qout' = QuantizeRow(qvariant, qrow, qmin, qmax, Len(qramp))
    /\ qdone' = TRUE
    /\ UNCHANGED <<qvariant, qramp, qmin, qmax, qrow, runVars, strideVars,
                   gridVars, playerVars>>

QuantNext == QuantizeRowStep
QuantSpec == QuantInit /\ [][QuantNext]_vars

-----------------------------------------------------------------------------
(* StrideSpec: the sampling interval for a source rate and a target rate *)

StrideInit ==
    /\ sOriginalFps \in 1..MaxRate
    /\ sFps \in (1..MaxRate) \cup {60}
    /\ sInterval = 0
    /\ sDone = FALSE
    /\ RunIdle
    /\ QuantIdle
    /\ GridIdle
    /\ PlayerIdle

ComputeStride ==
    /\ ~sDone
    /\ sInterval' = Stride(sOriginalFps, sFps)
    /\ sDone' = TRUE
    /\ UNCHANGED <<sOriginalFps, sFps, runVars, quantVars, gridVars,
                   playerVars>>

StrideNext == ComputeStride
StrideSpec == StrideInit /\ [][StrideNext]_vars

-----------------------------------------------------------------------------
(* Spec: one conversion run *)

\* The frame the decoder holds after a successful read at `pos`.
FrameAt(p) == [src |-> p, px |-> video[p + 1]]

\* Whether a read or grab at the current position yields a frame.  `ok` is
\* the decoder's own success: a decode failure makes it FALSE mid-stream,
\* and once "no more data" was signalled it stays so until the next seek.
Yields(ok) == ok /\ ~eos /\ pos < Len(video)

RasterizeFrameOwnRange(px) ==
    [c \in 1..Len(px) |->
        ASCII_MAP[Quantize(variant, px[c], SeqMin(px), SeqMax(px),
                           Len(ASCII_MAP)) + 1]]

\* The glyph grid of one frame: every sampled pixel through the quantizer
\* and the ramp.
RasterizeFrame(px) ==
    [c \in 1..Len(px) |->
        ASCII_MAP[Quantize(variant, px[c], global_min, global_max,
                           Len(ASCII_MAP)) + 1]]

PrependFrame(fs, f) == <<f>> \o fs
\* frames.append(ascii_frame) / frame_img.save(frame_NNNNN.png)
AppendFrame(fs, f) == Append(fs, f)

\* sys.exit(1), or an exception nobody catches: the process ends, status 1.
Abort(err) ==
    /\ outcome' = err
    /\ exitCode' = 1
    /\ pc' = "done"

Init ==
    /\ variant \in Variants
    /\ pathIsFile \in BOOLEAN
    /\ canOpen \in BOOLEAN
    /\ RunFresh
    /\ QuantIdle
    /\ StrideIdle
    /\ GridIdle
    /\ PlayerIdle

\* if not os.path.isfile(video_path): sys.exit(1)
CheckPath ==
    /\ pc = "start"
    /\ IF ~pathIsFile
         THEN Abort("SourceNotFound")
         ELSE pc' = "open" /\ UNCHANGED <<outcome, exitCode>>
    /\ UNCHANGED <<variant, pathIsFile, canOpen, video, total_frames,
                   original_fps, fps, pos, eos, frame_count, brightness_stats,
                   global_min, global_max, frame_interval, frame_index,
                   processed, cur, frames, written, htmlWritten, grabs,
                   retrieved, streamEnded, quantVars, strideVars, gridVars, playerVars>>

\* cap = cv2.VideoCapture(video_path); if not cap.isOpened(): sys.exit(1);
\* then the video's properties are read.
Open ==
    /\ pc = "open"
    /\ IF ~canOpen
         THEN /\ Abort("SourceUnreadable")
              /\ UNCHANGED <<video, total_frames, original_fps, fps>>
         ELSE /\ \E v \in Videos, r \in RatePairs(variant) :
                   /\ video' = v
                   /\ total_frames' \in ReportedCounts(v)
                   /\ original_fps' = r[1]
                   /\ fps' = r[2]
              /\ pc' = "estimate"
              /\ UNCHANGED <<outcome, exitCode>>
    /\ UNCHANGED <<variant, pathIsFile, canOpen, pos, eos, frame_count,
                   brightness_stats, global_min, global_max, frame_interval,
                   frame_index, processed, cur, frames, written, htmlWritten,
                   grabs, retrieved, streamEnded, quantVars, strideVars, gridVars, playerVars>>

\* mono, resample: one iteration of
\*   while frame_count < min(5, total_frames): ret, frame = cap.read() ...
\* or the loop's exit.
EstimateRead ==
    /\ pc = "estimate"
    /\ variant \in MonoVariants
    /\ IF frame_count < Min2(EstimateFrames, total_frames)
         THEN \E ok \in BOOLEAN :
                IF Yields(ok)
                  THEN /\ brightness_stats' =
                            Append(brightness_stats,
                                   <<SeqMin(video[pos + 1]), SeqMax(video[pos + 1])>>)
                       /\ frame_count' = frame_count + 1
                       /\ pos' = pos + 1
                       /\ UNCHANGED <<eos, pc>>
                  ELSE /\ eos' = TRUE
                       /\ pc' = "analyse"
                       /\ UNCHANGED <<brightness_stats, frame_count, pos>>
         ELSE /\ pc' = "analyse"
              /\ UNCHANGED <<brightness_stats, frame_count, pos, eos>>
    /\ UNCHANGED <<variant, pathIsFile, canOpen, outcome, exitCode, video,
                   total_frames, original_fps, fps, global_min, global_max,
                   frame_interval, frame_index, processed, cur, frames,
                   written, htmlWritten, grabs, retrieved, streamEnded,
                   quantVars, strideVars, gridVars, playerVars>>

AnalyseContinue ==
    /\ pc = "analyse"
    /\ IF brightness_stats = <<>>
         THEN /\ outcome' = "NoFramesAvailable"
              /\ exitCode' = 1
              /\ pc' = "raster"
              /\ UNCHANGED <<global_min, global_max, frame_interval>>
         ELSE /\ global_min' = SeqMin([i \in 1..Len(brightness_stats) |->
                                          brightness_stats[i][1]])
              /\ global_max' = SeqMax([i \in 1..Len(brightness_stats) |->
                                          brightness_stats[i][2]])
              /\ frame_interval' = IF variant = "resample"
                                     THEN Stride(original_fps, fps) ELSE 1
              /\ pc' = "raster"
              /\ UNCHANGED <<outcome, exitCode>>
    /\ pos' = 0
    /\ eos' = FALSE
    /\ UNCHANGED <<variant, pathIsFile, canOpen, video, total_frames,
                   original_fps, fps, frame_count, brightness_stats,
                   frame_index, processed, cur, frames, written, htmlWritten,
                   grabs, retrieved, streamEnded, quantVars, strideVars, gridVars, playerVars>>

AnalyseNoSeek ==
    /\ pc = "analyse"
    /\ IF brightness_stats = <<>>
         THEN /\ Abort("NoFramesAvailable")
              /\ UNCHANGED <<global_min, global_max, frame_interval, pos, eos>>
         ELSE /\ global_min' = SeqMin([i \in 1..Len(brightness_stats) |->
                                          brightness_stats[i][1]])
              /\ global_max' = SeqMax([i \in 1..Len(brightness_stats) |->
                                          brightness_stats[i][2]])
              /\ frame_interval' = IF variant = "resample"
                                     THEN Stride(original_fps, fps) ELSE 1
              /\ UNCHANGED <<pos, eos>>
              /\ pc' = "raster"
              /\ UNCHANGED <<outcome, exitCode>>
    /\ UNCHANGED <<variant, pathIsFile, canOpen, video, total_frames,
                   original_fps, fps, frame_count, brightness_stats,
                   frame_index, processed, cur, frames, written, htmlWritten,
                   grabs, retrieved, streamEnded, quantVars, strideVars, gridVars, playerVars>>

\* mono, resample: min_vals, max_vals, mean_vals = zip(*brightness_stats)
\* raises ValueError on an empty list (nobody catches it); otherwise the
\* global range, the seek back to frame 0 and, in the resampling variant,
\* the sampling interval.
Analyse ==
    /\ pc = "analyse"
    /\ IF brightness_stats = <<>>
         THEN /\ Abort("NoFramesAvailable")
              /\ UNCHANGED <<global_min, global_max, frame_interval, pos, eos>>
         ELSE /\ global_min' = SeqMin([i \in 1..Len(brightness_stats) |->
                                          brightness_stats[i][1]])
              /\ global_max' = SeqMax([i \in 1..Len(brightness_stats) |->
                                          brightness_stats[i][2]])
              /\ frame_interval' = IF variant = "resample"
                                     THEN Stride(original_fps, fps) ELSE 1
              /\ pos' = 0
              /\ eos' = FALSE
              /\ pc' = "raster"
              /\ UNCHANGED <<outcome, exitCode>>
    /\ UNCHANGED <<variant, pathIsFile, canOpen, video, total_frames,
                   original_fps, fps, frame_count, brightness_stats,
                   frame_index, processed, cur, frames, written, htmlWritten,
                   grabs, retrieved, streamEnded, quantVars, strideVars, gridVars, playerVars>>

\* colour, file: ret, first_frame = cap.read(); if not ret: sys.exit(1);
\* the range of the first frame's value channel; the seek back to frame 0.
EstimateFirst ==
    /\ pc = "estimate"
    /\ variant \notin MonoVariants
    /\ \E ok \in BOOLEAN :
         IF Yields(ok)
           THEN /\ global_min' = SeqMin(video[pos + 1])
                /\ global_max' = SeqMax(video[pos + 1])
                /\ frame_count' = 1
                /\ pos' = 0
                /\ eos' = FALSE
                /\ pc' = "raster"
                /\ UNCHANGED <<outcome, exitCode>>
           ELSE /\ Abort("NoFramesAvailable")
                /\ eos' = TRUE
                /\ UNCHANGED <<global_min, global_max, frame_count, pos>>
    /\ UNCHANGED <<variant, pathIsFile, canOpen, video, total_frames,
                   original_fps, fps, brightness_stats, frame_interval,
                   frame_index, processed, cur, frames, written, htmlWritten,
                   grabs, retrieved, streamEnded, quantVars, strideVars, gridVars, playerVars>>

\* mono, colour, file: ret, frame = cap.read(); if not ret: break
ReadFrame ==
    /\ pc = "raster"
    /\ variant # "resample"
    /\ \E ok \in BOOLEAN :
         IF Yields(ok)
           THEN /\ cur' = FrameAt(pos)
                /\ pos' = pos + 1
                /\ pc' = "rasterize"
                /\ UNCHANGED <<eos, streamEnded>>
           ELSE /\ eos' = TRUE
                /\ streamEnded' = TRUE
                /\ pc' = "finish"
                /\ UNCHANGED <<cur, pos>>
    /\ UNCHANGED <<variant, pathIsFile, canOpen, outcome, exitCode, video,
                   total_frames, original_fps, fps, frame_count,
                   brightness_stats, global_min, global_max, frame_interval,
                   frame_index, processed, frames, written, htmlWritten,
                   grabs, retrieved, quantVars, strideVars, gridVars, playerVars>>

\* resample: one pass of "while frame_index < total_frames" up to the
\* rasterization: ret = cap.grab(); on a selected index cap.retrieve() and
\* "if not ret: break"; on any other index frame_index += 1.  The result of
\* grab() is ignored by the code; retrieve() succeeds exactly when the grab
\* before it took a frame.
GrabFrame ==
    /\ pc = "raster"
    /\ variant = "resample"
    /\ IF frame_index < total_frames
         THEN \E ok \in BOOLEAN :
                LET grabbed == Yields(ok) IN
                /\ pos' = IF grabbed THEN pos + 1 ELSE pos
                /\ eos' = (eos \/ ~grabbed)
                /\ grabs' = IF grabbed
                              THEN [grabs EXCEPT ![pos] = @ + 1] ELSE grabs
                /\ IF Selected(frame_index, frame_interval)
                     THEN IF grabbed
                            THEN /\ cur' = FrameAt(pos)
                                 /\ retrieved' = retrieved \cup {pos}
                                 /\ pc' = "rasterize"
                                 /\ UNCHANGED <<frame_index, streamEnded>>
                            ELSE /\ streamEnded' = TRUE
                                 /\ pc' = "finish"
                                 /\ UNCHANGED <<cur, retrieved, frame_index>>
                     ELSE /\ frame_index' = frame_index + 1
                          /\ UNCHANGED <<cur, retrieved, pc, streamEnded>>
         ELSE /\ pc' = "finish"
              /\ UNCHANGED <<pos, eos, grabs, cur, retrieved, frame_index,
                             streamEnded>>
    /\ UNCHANGED <<variant, pathIsFile, canOpen, outcome, exitCode, video,
                   total_frames, original_fps, fps, frame_count,
                   brightness_stats, global_min, global_max, frame_interval,
                   processed, frames, written, htmlWritten, quantVars,
                   strideVars, gridVars, playerVars>>

\* The body of the loop after a successful decode: the glyph grid is built,
\* then appended to `frames` (HTML variants) or saved as an image (file);
\* processed += 1 (and frame_index += 1 in the resampling variant).
\* frame_img.save raises when the image cannot be written.
Rasterize ==
    /\ pc = "rasterize"
    /\ LET grid == [src |-> cur.src, glyphs |-> RasterizeFrame(cur.px)] IN
       IF variant = "file"
         THEN \E saveOk \in BOOLEAN :
                IF saveOk
                  THEN /\ written' = AppendFrame(written, grid)
                       /\ processed' = processed + 1
                       /\ cur' = NoFrame
                       /\ pc' = "raster"
                       /\ UNCHANGED <<outcome, exitCode, frames>>
                  ELSE /\ Abort("OutputWriteFailed")
                       /\ UNCHANGED <<written, processed, cur, frames>>
         ELSE /\ frames' = AppendFrame(frames, grid)
              /\ processed' = processed + 1
              /\ cur' = NoFrame
              /\ pc' = "raster"
              /\ UNCHANGED <<outcome, exitCode, written>>
    /\ frame_index' = IF variant = "resample" /\ pc' = "raster"
                        THEN frame_index + 1 ELSE frame_index
    /\ UNCHANGED <<variant, pathIsFile, canOpen, video, total_frames,
                   original_fps, fps, pos, eos, frame_count, brightness_stats,
                   global_min, global_max, frame_interval, htmlWritten, grabs,
                   retrieved, streamEnded, quantVars, strideVars, gridVars, playerVars>>

FinishStrict ==
    /\ pc = "finish"
    /\ IF processed = 0 \/ processed < total_frames
         THEN Abort("NoFramesProduced")
         ELSE IF variant = "file"
                THEN /\ outcome' = "Success"
                     /\ exitCode' = 0
                     /\ pc' = "done"
                ELSE /\ pc' = "write"
                     /\ UNCHANGED <<outcome, exitCode>>
    /\ UNCHANGED <<variant, pathIsFile, canOpen, video, total_frames,
                   original_fps, fps, pos, eos, frame_count, brightness_stats,
                   global_min, global_max, frame_interval, frame_index,
                   processed, cur, frames, written, htmlWritten, grabs,
                   retrieved, streamEnded, quantVars, strideVars, gridVars, playerVars>>

\* After the loop: cap.release(); colour: "if not frames: sys.exit(1)";
\* file: "if processed == 0: sys.exit(1)", else the function returns;
\* mono and resample go on to the HTML without a check.
Finish ==
    /\ pc = "finish"
    /\ IF variant \in {"colour", "file"} /\ processed = 0
         THEN Abort("NoFramesProduced")
         ELSE IF variant = "file"
                THEN /\ outcome' = "Success"
                     /\ exitCode' = 0
                     /\ pc' = "done"
                ELSE /\ pc' = "write"
                     /\ UNCHANGED <<outcome, exitCode>>
    /\ UNCHANGED <<variant, pathIsFile, canOpen, video, total_frames,
                   original_fps, fps, pos, eos, frame_count, brightness_stats,
                   global_min, global_max, frame_interval, frame_index,
                   processed, cur, frames, written, htmlWritten, grabs,
                   retrieved, streamEnded, quantVars, strideVars, gridVars, playerVars>>

\* with open(output_file, 'w') as f: f.write(html_content): every frame of
\* `frames` goes into the one document.  A failure to open the file is
\* caught and turned into sys.exit(1) by colour and is an uncaught
\* exception in mono and resample.
WriteHtml ==
    /\ pc = "write"
    /\ \E writeOk \in BOOLEAN :
         IF writeOk
           THEN /\ written' = frames
                /\ htmlWritten' = TRUE
                /\ outcome' = "Success"
                /\ exitCode' = 0
                /\ pc' = "done"
           ELSE /\ Abort("OutputWriteFailed")
                /\ UNCHANGED <<written, htmlWritten>>
    /\ UNCHANGED <<variant, pathIsFile, canOpen, video, total_frames,
                   original_fps, fps, pos, eos, frame_count, brightness_stats,
                   global_min, global_max, frame_interval, frame_index,
                   processed, cur, frames, grabs, retrieved, streamEnded,
                   quantVars, strideVars, gridVars, playerVars>>

Next ==
    \/ CheckPath
    \/ Open
    \/ EstimateRead
    \/ Analyse
    \/ EstimateFirst
    \/ ReadFrame
    \/ GrabFrame
    \/ Rasterize
    \/ Finish
    \/ WriteHtml

Spec == Init /\ [][Next]_vars

-----------------------------------------------------------------------------
(* GridSpec: frames of one video through the height computation, cv2.resize
   and the glyph assembly *)

\* Brightness of pixel (y, x) of source frame f: some fixed image content.
SourcePixel(f, y, x) == (37 * x + 91 * y + 128 * f) % Byte
SourceImage(f, w, h) ==
    [y \in 1..h |-> [x \in 1..w |-> SourcePixel(f, y, x)]]

ImagePixels(img) == {img[y][x] : y \in 1..Len(img), x \in 1..Len(img[1])}
ImageMin(img) == CHOOSE m \in ImagePixels(img) : \A q \in ImagePixels(img) : m <= q
ImageMax(img) == CHOOSE m \in ImagePixels(img) : \A q \in ImagePixels(img) : m >= q

\* int(width * (h / w) * 0.5): truncation.
HeightTruncated(width, srcW, srcH) == (width * srcH) \div (2 * srcW)
\* int(width * (h / w) * 0.5 + 0.5): rounding, a half going up.
HeightRounded(width, srcW, srcH) == (width * srcH + srcW) \div (2 * srcW)

\* The number of rows each variant asks cv2.resize for.
HeightOf(v, width, srcW, srcH) ==
    IF v = "resample" THEN HeightRounded(width, srcW, srcH)
    ELSE HeightTruncated(width, srcW, srcH)

\* cv2.resize(img, (w, h)): an array of h rows and w columns (sampled here
\* from the nearest source pixel; the library interpolates).  An empty
\* target size is an error.
ResizeFails(w, h) == w <= 0 \/ h <= 0
Resize(img, w, h) ==
    [y \in 1..h |-> [x \in 1..w |->
        img[((y - 1) * Len(img)) \div h + 1][((x - 1) * Len(img[1])) \div w + 1]]]

BuildGridShort(v, resized, width, height, lo, hi) ==
    [y \in 1..height |-> [x \in 1..(width - 1) |->
        ASCII_MAP[Quantize(v, resized[y][x], lo, hi, Len(ASCII_MAP)) + 1]]]
\* The glyph grid: "for row in resized: for pixel in row" (mono, resample)
\* or "for y in range(height): for x in range(width)" (colour, file).
BuildGrid(v, resized, width, height, lo, hi) ==
    IF v \in MonoVariants
      THEN [y \in 1..Len(resized) |-> [x \in 1..Len(resized[y]) |->
              ASCII_MAP[Quantize(v, resized[y][x], lo, hi, Len(ASCII_MAP)) + 1]]]
      ELSE [y \in 1..height |-> [x \in 1..width |->
              ASCII_MAP[Quantize(v, resized[y][x], lo, hi, Len(ASCII_MAP)) + 1]]]

GridInit ==
    /\ gvariant \in Variants
    /\ gWidth \in 1..MaxDim
    /\ gSrcW \in 1..MaxDim
    /\ gSrcH \in 1..MaxDim
    /\ gHeight = 0
    /\ gGrid = <<>>
    /\ gState = "pending"
    /\ RunIdle
    /\ QuantIdle
    /\ StrideIdle
    /\ PlayerIdle

\* One frame: the height, the resize (which raises on an empty size) and
\* the glyph grid, appended to the frames produced.  The range is that of
\* the first frame.
RasterizeGrid ==
    /\ gState = "pending"
    /\ LET f == Len(gGrid)
           img == SourceImage(f, gSrcW, gSrcH)
           first == SourceImage(0, gSrcW, gSrcH)
           h == HeightOf(gvariant, gWidth, gSrcW, gSrcH)
       IN  /\ gHeight' = h
           /\ IF ResizeFails(gWidth, h)
                THEN /\ gState' = "ResizeError"
                     /\ gGrid' = gGrid
                ELSE /\ gGrid' = Append(gGrid,
                            BuildGrid(gvariant, Resize(img, gWidth, h),
                                      gWidth, h, ImageMin(first), ImageMax(first)))
                     /\ gState' = IF f + 1 >= GridFrames THEN "done" ELSE "pending"
    /\ UNCHANGED <<gvariant, gWidth, gSrcW, gSrcH, runVars, quantVars,
                   strideVars, playerVars>>

GridNext == RasterizeGrid
GridSpec == GridInit /\ [][GridNext]_vars

-----------------------------------------------------------------------------
(* PlayerSpec: the script of the generated page.  Timestamps are whole
   milliseconds; pRequests counts the animation callbacks pending. *)

\* Values of fps written into the page.
PlayerRates == {25, 50}
\* Milliseconds between one timestamp and the next.
Ticks == {10, 30}

DueStrict(elapsed, rate) == elapsed * rate > 1000
\* elapsed >= frameDelay, with frameDelay = 1000 / fps.
Due(elapsed, rate) == elapsed * rate >= 1000

\* The body of renderFrame / playAnimation called with `timestamp`, the
\* display showing frame `shown` (-1: nothing) on entry.
RenderBody(timestamp, shown) ==
    LET last == IF lastTime = 0 THEN timestamp ELSE lastTime
        elapsed == timestamp - last
    IN  /\ IF Due(elapsed, pFps)
             THEN /\ pShown' = currentFrame
                  /\ currentFrame' = (currentFrame + 1) % pFrames
                  /\ lastTime' = timestamp
                  /\ pRenders' = pRenders + 1
             ELSE /\ pShown' = shown
                  /\ lastTime' = last
                  /\ UNCHANGED <<currentFrame, pRenders>>

PlayerInit ==
    /\ pvariant \in HtmlVariants
    /\ pFps \in PlayerRates
    /\ pFrames \in 0..MaxPlayFrames
    /\ pState = "loading"
    /\ currentFrame = 0
    /\ lastTime = 0
    /\ pNow = 0
    /\ pShown = -1
    /\ pRenders = 0
    /\ pRequests = 0
    /\ RunIdle
    /\ QuantIdle
    /\ StrideIdle
    /\ GridIdle

\* DOMContentLoaded with no frames: an error message, no playback.
LoadEmpty ==
    /\ pState = "loading"
    /\ pFrames = 0
    /\ pState' = "error"
    /\ UNCHANGED <<pvariant, pFps, pFrames, currentFrame, lastTime, pNow,
                   pShown, pRenders, pRequests>>
    /\ UNCHANGED <<runVars, quantVars, strideVars, gridVars>>

\* DOMContentLoaded with frames: mono calls renderFrame(performance.now()),
\* colour shows frames[0] and does the same, resample only requests the
\* first callback.
Load ==
    /\ pState = "loading"
    /\ pFrames > 0
    /\ \E t \in Ticks :
          /\ pNow' = t
          /\ IF pvariant = "resample"
               THEN UNCHANGED <<currentFrame, lastTime, pShown, pRenders>>
               ELSE RenderBody(t, IF pvariant = "colour" THEN 0 ELSE pShown)
    /\ pRequests' = pRequests + 1
    /\ pState' = "playing"
    /\ UNCHANGED <<pvariant, pFps, pFrames>>
    /\ UNCHANGED <<runVars, quantVars, strideVars, gridVars>>

\* The browser runs a pending animation callback with a later timestamp;
\* the callback requests itself again.
Callback ==
    /\ pState = "playing"
    /\ pRequests > 0
    /\ \E d \in Ticks :
          /\ pNow + d <= MaxTime
          /\ pNow' = pNow + d
          /\ RenderBody(pNow + d, pShown)
    /\ pRequests' = (pRequests - 1) + 1
    /\ UNCHANGED <<pvariant, pFps, pFrames, pState>>
    /\ UNCHANGED <<runVars, quantVars, strideVars, gridVars>>

PlayerNext == LoadEmpty \/ Load \/ Callback
PlayerSpec == PlayerInit /\ [][PlayerNext]_vars

-----------------------------------------------------------------------------
(* Claims about the quantizer (QuantSpec) *)

InRange(p) == qmin <= p /\ p <= qmax
RampIndices == 0..(Len(qramp) - 1)

\* C1: for a range min <= max and samples within it, each variant's
\* quantizer returns an index in [0, L-1], and the index does not decrease
\* as the sample increases.
C1_QuantizerRangeMonotone ==
    (qdone /\ InRange(qrow[1]) /\ InRange(qrow[2])) =>
        /\ qout[1] \in RampIndices
        /\ qout[2] \in RampIndices
        /\ (qrow[1] <= qrow[2] => qout[1] <= qout[2])

C1_Witness ==
    /\ qdone
    /\ qmin < qrow[1] /\ qrow[1] < qrow[2] /\ qrow[2] <= qmax
    /\ 0 < qout[1] /\ qout[1] < qout[2]

\* C2: with ramp " .#" and range (0, 255), sample 0 gives ' ', sample 255
\* (the range maximum) gives the last glyph '#', and sample 128 gives '.'.
C2_ScenarioGlyphs ==
    (qdone /\ qramp = ScenarioRamp /\ qmin = 0 /\ qmax = 255) =>
        \A c \in 1..2 :
            /\ qrow[c] = 0 => qramp[qout[c] + 1] = " "
            /\ qrow[c] = 255 => qramp[qout[c] + 1] = "#"
            /\ qrow[c] = 128 => qramp[qout[c] + 1] = "."

\* C3: with min = max the quantizer never divides by zero, returns an index
\* in [0, L-1] for every 8-bit sample, returns the same index for the same
\* sample, and maps a sample equal to min to index 0.
C3_DegenerateRange ==
    (qdone /\ qmin = qmax) =>
        /\ \A c \in 1..2 :
              /\ qout[c] # DivisionError
              /\ qout[c] \in RampIndices
              /\ (qrow[c] = qmin => qout[c] = 0)
        /\ (qrow[1] = qrow[2] => qout[1] = qout[2])

C3_Witness ==
    /\ qdone
    /\ qmin = qmax
    /\ qrow[1] = qmin /\ qout[1] = 0
    /\ qrow[2] # qmin /\ qout[2] = Len(qramp) - 1

-----------------------------------------------------------------------------
(* Claims about the stride (StrideSpec) *)

Abs(x) == IF x < 0 THEN -x ELSE x

\* C8: for positive rates the stride is max(1, round(sourceRate /
\* targetRate)): never below 1, and otherwise an integer nearest to the
\* ratio; 30 over 10 gives 3 and 24 over 60 gives 1.
C8_Stride ==
    sDone =>
        /\ sInterval >= 1
        /\ \/ 2 * Abs(sInterval * sFps - sOriginalFps) <= sFps
           \/ sInterval = 1 /\ 2 * sOriginalFps < sFps
        /\ (sOriginalFps = 30 /\ sFps = 10) => sInterval = 3
        /\ (sOriginalFps = 24 /\ sFps = 60) => sInterval = 1

C8_Witness ==
    /\ sDone
    /\ sOriginalFps = 24 /\ sFps = 60
    /\ PyRound(sOriginalFps, sFps) = 0
    /\ sInterval = 1

-----------------------------------------------------------------------------
(* Claims about a conversion run (Spec) *)

\* The frames produced so far: the saved images (file) or the in-memory
\* animation (HTML variants).
Emitted == IF variant = "file" THEN written ELSE frames

FatalErrors == {"SourceNotFound", "SourceUnreadable", "NoFramesAvailable",
                "OutputWriteFailed"}

\* The rasterization loop has been entered.
LoopEntered ==
    \/ pc \in {"raster", "rasterize", "finish", "write"}
    \/ pc = "done" /\ (processed > 0 \/ streamEnded
                         \/ outcome \in {"Success", "OutputWriteFailed"})

\* C4: when the decoder signals no more data on the first read or retrieve
\* of the rasterization loop, every variant ends with NoFramesProduced
\* (non-zero exit) and writes no artifact with an empty frame list.
C4_ZeroFramesIsError ==
    (streamEnded /\ processed = 0) =>
        /\ pc # "write"
        /\ ~htmlWritten
        /\ pc = "done" => (outcome = "NoFramesProduced" /\ exitCode # 0)

\* C5: when a run has ended, either the complete animation has been
\* written, or nothing has been written at the output location.
C5_AllOrNothing ==
    pc = "done" =>
        \/ /\ outcome = "Success"
           /\ Len(written) = processed
           /\ variant \in HtmlVariants => (htmlWritten /\ written = frames)
        \/ /\ written = <<>>
           /\ ~htmlWritten

C6_State ==
    /\ (pc # "start" /\ ~pathIsFile) => outcome = "SourceNotFound"
    /\ (pc \notin {"start", "open"} /\ pathIsFile /\ ~canOpen)
           => outcome = "SourceUnreadable"
    /\ (pc \notin {"start", "open", "estimate", "analyse"}
            /\ pathIsFile /\ canOpen /\ frame_count = 0)
           => outcome = "NoFramesAvailable"
    /\ outcome \in FatalErrors => (pc = "done" /\ exitCode # 0)

\* C6: a missing source, a source the decoder cannot open, a range
\* estimation that got no frame, and an output that cannot be written each
\* end the run with a non-zero status; the run takes no further step after
\* any of them (no retry, no further decode or rasterization).
C6_FatalErrors ==
    [][C6_State /\ C6_State' /\ outcome \notin FatalErrors]_vars

C6_Witness ==
    /\ pc = "done"
    /\ outcome = "NoFramesAvailable"
    /\ exitCode = 1
    /\ Len(video) > 0
    /\ processed = 0 /\ frames = <<>> /\ written = <<>>

\* C7: when the decoder signals no more data after k >= 1 frames were
\* rasterized, frame production stops there without an error, the k frames
\* are those produced, in order, and the run ends successfully with exactly
\* them as its output (unless writing the HTML artifact itself fails).
C7_EarlyEndOfStream ==
    (streamEnded /\ processed >= 1) =>
        /\ pc \in {"finish", "write", "done"}
        /\ outcome \in {"Running", "Success", "OutputWriteFailed"}
        /\ Len(Emitted) = processed
        /\ \A k \in 1..Len(Emitted) :
               Emitted[k].src = (k - 1) * frame_interval
        /\ (pc = "done" /\ outcome = "Success")
               => (exitCode = 0 /\ written = Emitted)
        /\ (pc = "done" /\ variant = "file") => outcome = "Success"

C7_Witness ==
    /\ pc = "done"
    /\ streamEnded
    /\ outcome = "Success"
    /\ processed >= 1
    /\ pos < Len(video)
    /\ Len(written) = processed

C10_State ==
    /\ \A k \in 1..Len(Emitted) :
          /\ Emitted[k].src = (k - 1) * frame_interval
          /\ Emitted[k].glyphs = RasterizeFrame(video[Emitted[k].src + 1])
    /\ pc = "raster" => (cur = NoFrame /\ Len(Emitted) = processed)
    /\ pc = "rasterize" => (/\ cur.src = Len(Emitted) * frame_interval
                            /\ Len(Emitted) = processed)

C10_Step ==
    /\ Len(Emitted') \in {Len(Emitted), Len(Emitted) + 1}
    /\ \A k \in 1..Len(Emitted) : Emitted'[k] = Emitted[k]

\* C10: at every point of a run the frames produced are the rasterizations
\* of the selected source frames in increasing source index, none missing,
\* duplicated or reordered; a decoded frame is appended (or saved) before
\* the next one is requested; a step only appends, never changes a frame.
C10_SourceOrder ==
    [][C10_State /\ C10_State' /\ C10_Step]_vars

C10_Witness ==
    /\ pc = "rasterize"
    /\ Len(Emitted) = 3
    /\ cur.src = 3 * frame_interval
    /\ Emitted[1].glyphs # Emitted[2].glyphs

\* The glyphs of source frame `src` under the range <<lo, hi>>.
GlyphsUnder(src, lo, hi) ==
    [c \in 1..Len(video[src + 1]) |->
        ASCII_MAP[Quantize(variant, video[src + 1][c], lo, hi,
                           Len(ASCII_MAP)) + 1]]

C11_Step ==
    /\ (global_min' # global_min \/ global_max' # global_max)
          => (/\ pc \in {"estimate", "analyse"}
              /\ pc' = "raster"
              /\ processed = 0
              /\ Emitted = <<>>)
    /\ pc \in {"raster", "rasterize", "finish", "write", "done"}
          => UNCHANGED <<global_min, global_max>>
    /\ \A k \in 1..Len(Emitted') :
          Emitted'[k].glyphs =
              GlyphsUnder(Emitted'[k].src, global_min', global_max')

\* C11: the pair (min, max) is set in the one estimation step, before the
\* first frame is rasterized, and no later step changes it; every cell of
\* every frame produced is quantized against that same pair and ramp.
C11_RangeFixed == [][C11_Step]_vars

C11_Witness ==
    /\ variant = "colour"
    /\ Len(frames) = 2
    /\ video[1] = Grey /\ video[2] = Checker
    /\ global_min = 128 /\ global_max = 128
    /\ frames[1].glyphs # frames[2].glyphs

\* C14: for a range min <= max, a sample below min maps to index 0 and a
\* sample above max maps to index L-1, in every variant.
C14_OutOfRangeClamped ==
    qdone =>
        \A c \in 1..2 :
            /\ qrow[c] < qmin => qout[c] = 0
            /\ qrow[c] > qmax => qout[c] = Len(qramp) - 1

\* C15: for max > min and a sample in [min, max], the index computed with
\* the epsilon in the denominator equals the index of the epsilon-free
\* reference floor((sample - min) / (max - min) * (L - 1)).
C15_EpsilonNoSkew ==
    (qdone /\ qmax > qmin) =>
        \A c \in 1..2 :
            InRange(qrow[c]) =>
                qout[c] = ((qrow[c] - qmin) * (Len(qramp) - 1)) \div (qmax - qmin)

\* Range estimation has succeeded.
Estimated ==
    \/ pc \in {"raster", "rasterize", "finish", "write"}
    \/ pc = "done" /\ outcome \notin {"SourceNotFound", "SourceUnreadable",
                                       "NoFramesAvailable"}

\* The frames the estimation analyses: in the monochrome variants as many of
\* the first min(5, reported count) as the decoder yielded, else the first.
AnalysedFrames == IF variant \in MonoVariants THEN frame_count ELSE 1
AnalysedPixels ==
    {video[i][c] : i \in 1..AnalysedFrames, c \in 1..Len(Checker)}

\* C17: after a successful estimation the range is the smallest and the
\* largest sample over all pixels of the analysed frames -- in the monochrome
\* variants the first min(5, reported frame count) frames, fewer only if
\* the decoder stopped yielding, in the colour variants the first frame --
\* and max >= min.
C17_RangeEstimate ==
    /\ Estimated =>
          /\ AnalysedFrames >= 1
          /\ AnalysedFrames <= Len(video)
          /\ variant \in MonoVariants => AnalysedFrames <= Min2(5, total_frames)
          /\ global_min \in AnalysedPixels
          /\ global_max \in AnalysedPixels
          /\ \A q \in AnalysedPixels : global_min <= q /\ q <= global_max
          /\ global_max >= global_min
    /\ (pc = "analyse" /\ ~eos) => frame_count = Max2(0, Min2(5, total_frames))

C17_Witness ==
    /\ Estimated
    /\ variant = "mono"
    /\ Len(video) = 6 /\ total_frames = 6
    /\ frame_count = 5
    /\ \A i \in 1..5 : video[i] = Grey
    /\ video[6] = Checker
    /\ global_min = 128 /\ global_max = 128
    /\ Len(frames) = 6

\* The source frames the rasterization loop selects from a whole video.
SelectedSources ==
    {i \in 0..(Len(video) - 1) :
        variant = "resample" => i % frame_interval = 0}

\* The rasterization loop has ended with the video read to its end and
\* nothing has failed.
ReadToEnd ==
    /\ pc \in {"finish", "write", "done"}
    /\ outcome \in {"Running", "Success"}
    /\ Estimated
    /\ pos = Len(video)

C18_State ==
    /\ Len(Emitted) >= 1 => Emitted[1].src = 0
    /\ ReadToEnd =>
          /\ \A i \in SelectedSources :
                i < AnalysedFrames =>
                    \E k \in 1..Len(Emitted) : Emitted[k].src = i
          /\ Len(Emitted) = Cardinality(SelectedSources)

C18_Step ==
    (pc \in {"estimate", "analyse"} /\ pc' = "raster")
        => (pos' = 0 /\ ~eos')

\* C18: the step that ends range estimation leaves the decoder at source
\* frame 0, so the first frame produced is source frame 0; when the video
\* is then read to its end every analysed frame (every analysed frame on
\* the stride, in the resampling variant) is among the frames produced, and
\* as many frames are produced as the whole video has to offer.
C18_EstimationConsumesNothing == [][C18_Step /\ C18_State']_vars

C18_Witness ==
    /\ ReadToEnd
    /\ variant = "resample"
    /\ frame_interval = 3
    /\ frame_count = 5
    /\ Len(video) = 6
    /\ Len(frames) = 2
    /\ frames[1].src = 0 /\ frames[2].src = 3

-----------------------------------------------------------------------------
(* Claims about the glyph grid (GridSpec) *)

\* C12: every frame produced has exactly targetHeight rows of exactly
\* targetWidth glyphs, whatever the source width and height, and all
\* frames of a run have the same dimensions.
C12_GridDimensions ==
    \A f \in 1..Len(gGrid) :
        /\ Len(gGrid[f]) = gHeight
        /\ \A y \in 1..Len(gGrid[f]) : Len(gGrid[f][y]) = gWidth
        /\ Len(gGrid[f]) = Len(gGrid[1])

C12_Witness ==
    /\ gState = "done"
    /\ Len(gGrid) = GridFrames
    /\ gSrcW # gWidth /\ gSrcH # gHeight /\ gWidth # gHeight
    /\ gHeight >= 2

\* C16: in every variant the number of rows of a rasterized frame is
\* targetWidth * (sourceHeight / sourceWidth) * 0.5 rounded to a nearest
\* integer (at most one half away from it), not truncated.
C16_HeightRounded ==
    \A f \in 1..Len(gGrid) :
        2 * Abs(2 * gSrcW * Len(gGrid[f]) - gWidth * gSrcH) <= 2 * gSrcW

-----------------------------------------------------------------------------
(* Claims about the player (PlayerSpec) *)

\* Time since the last render as the callback with timestamp ts computes it.
ElapsedAt(ts) == ts - (IF lastTime = 0 THEN ts ELSE lastTime)

\* What every animation callback does when it renders and when it skips,
\* apart from the last-render time of a skipping callback.
C13_Pacing ==
    /\ ElapsedAt(pNow') * pFps >= 1000
          => /\ pShown' = currentFrame
             /\ currentFrame' = (currentFrame + 1) % pFrames
             /\ pRenders' = pRenders + 1
             /\ lastTime' = pNow'
    /\ ElapsedAt(pNow') * pFps < 1000
          => UNCHANGED <<pShown, currentFrame, pRenders>>
    /\ pRequests' = 1
    /\ pState' = "playing"

\* C13 as stated: on each animation callback a frame is rendered, the
\* current-frame index advanced and the last-render time updated only if
\* the elapsed time is at least 1000/fps ms; otherwise nothing is rendered
\* and the current-frame index and the last-render time are unchanged; in
\* both cases the callback is requested again.
C13_PacingAsStated ==
    [][pState = "playing"
          => /\ C13_Pacing
             /\ ElapsedAt(pNow') * pFps < 1000 => lastTime' = lastTime]_vars

\* C13, amended: as stated, except that a skipping callback that finds the
\* last-render time unset (0) sets it to its own timestamp.
C13_PacingAmended ==
    [][pState = "playing"
          => /\ C13_Pacing
             /\ ElapsedAt(pNow') * pFps < 1000
                   => lastTime' = (IF lastTime = 0 THEN pNow' ELSE lastTime)]_vars

C13_Witness ==
    /\ pState = "playing"
    /\ pvariant = "resample"
    /\ pFps = 25
    /\ pFrames = 2
    /\ pRenders = 2
    /\ currentFrame = 0
    /\ lastTime = 100 /\ pNow = 110

=============================================================================
